---- MODULE Spec2Model ----
\* Model of main.py: a command-line pipeline that fetches model metadata,
\* downloads the weights, syncs the llama.cpp tree, converts the weights to
\* GGUF and optionally runs the converted model.  A behaviour is a sequence
\* of runs of the script over one filesystem.  Strings that the script takes
\* apart or puts together (model names, paths, the quantization value) are
\* sequences of one-character strings.
EXTENDS Integers, Sequences, FiniteSets

\* ---------------------------------------------------------------------
\* String helpers (Python str / os.path semantics)
\* ---------------------------------------------------------------------

\* sub in s
Contains(sub, s) ==
    \E i \in 1..(Len(s) - Len(sub) + 1) : SubSeq(s, i, i + Len(sub) - 1) = sub

\* s.split("/")[-1]
SplitLast(s) ==
    LET slashes == {i \in 1..Len(s) : s[i] = "/"}
        last == IF slashes = {} THEN 0
                ELSE CHOOSE i \in slashes : \A j \in slashes : j <= i
    IN SubSeq(s, last + 1, Len(s))

UpperChar(c) ==
    CASE c = "f" -> "F"
      [] c = "g" -> "G"
      [] c = "p" -> "P"
      [] c = "t" -> "T"
      [] c = "q" -> "Q"
      [] OTHER -> c

\* str.upper()
Upper(s) == [i \in 1..Len(s) |-> UpperChar(s[i])]

\* os.path.join(a, b) on a POSIX system
Join(a, b) ==
    IF Len(b) > 0 /\ b[1] = "/" THEN b
    ELSE IF Len(a) = 0 \/ a[Len(a)] = "/" THEN a \o b
    ELSE a \o <<"/">> \o b

\* ---------------------------------------------------------------------
\* Program constants
\* ---------------------------------------------------------------------

AliasDeepseek == <<"m", "l", "x", "-", "d", "e", "e", "p", "s", "e", "e", "k", "-", "3", "2", "b">>
NameDeepseek == <<"m", "l", "x", "-", "c", "o", "m", "m", "u", "n", "i", "t", "y", "/", "D", "e", "e", "p", "S", "e", "e", "k", "-", "R", "1", "-", "D", "i", "s", "t", "i", "l", "l", "-", "Q", "w", "e", "n", "-", "3", "2", "B">>
AliasLlama == <<"l", "l", "a", "m", "a", "-", "3", "b">>
NameLlama == <<"m", "l", "x", "-", "c", "o", "m", "m", "u", "n", "i", "t", "y", "/", "L", "l", "a", "m", "a", "-", "3", ".", "2", "-", "3", "B", "-", "I", "n", "s", "t", "r", "u", "c", "t">>

\* MODELS_ALIASES, as a set of <<alias, name>> pairs
MODELS_ALIASES == {<<AliasDeepseek, NameDeepseek>>, <<AliasLlama, NameLlama>>}

\* MODELS_ALIASES.get(m, m)
AliasGet(m) ==
    IF \E p \in MODELS_ALIASES : p[1] = m
    THEN (CHOOSE p \in MODELS_ALIASES : p[1] = m)[2]
    ELSE m

\* n_gpu_layers_mapping, in insertion order
n_gpu_layers_mapping ==
    << <<(<<"7", "2", "B">>), "40">>,
       <<(<<"3", "2", "B">>), "60">>,
       <<(<<"1", "4", "B">>), "70">>,
       <<(<<"1", "2", "B">>), "70">>,
       <<(<<"7", "B">>), "80">>,
       <<(<<"3", "B">>), "90">>,
       <<(<<"1", "B">>), "100">> >>

DefaultLayers == "30"

\* Variant of model_size: the last matching entry of the table wins
model_size_last(name) ==
    LET hits == {i \in 1..Len(n_gpu_layers_mapping) :
                    Contains(n_gpu_layers_mapping[i][1], name)}
    IN IF hits = {} THEN 0 ELSE CHOOSE i \in hits : \A j \in hits : j <= i

\* next((size for size in mapping if size in name), None), as an index
\* into the table (0 = None)
model_size(name) ==
    LET hits == {i \in 1..Len(n_gpu_layers_mapping) :
                    Contains(n_gpu_layers_mapping[i][1], name)}
    IN IF hits = {} THEN 0 ELSE CHOOSE i \in hits : \A j \in hits : i <= j

\* n_gpu_layers_mapping.get(model_size, "30")
NGpuLayers(name) ==
    IF model_size(name) = 0 THEN DefaultLayers
    ELSE n_gpu_layers_mapping[model_size(name)][2]

\* ---------------------------------------------------------------------
\* Inputs
\* ---------------------------------------------------------------------

\* values of --model: an alias and the full name it stands for
ModelArgs == {AliasLlama, NameLlama}

\* locations of the script
ScriptDirs == {<<"/">>, <<"/", "s">>}

QF16 == <<"f", "1", "6">>
QGptq == <<"g", "p", "t", "q">>

\* What AutoConfig.from_pretrained can do: raise, or return a config.
\* qc is the quantization_config attribute: "absent", "none" (attribute
\* set to None), "nokey" (a dict without quant_method) or "key" (a dict
\* whose quant_method is qm).
Configs ==
    [raises : {TRUE}, model_type : {""}, qc : {"absent"}, qm : {<<>>}]
    \cup [raises : {FALSE}, model_type : {"", "llama"},
          qc : {"absent", "none", "nokey"}, qm : {<<>>}]
    \cup [raises : {FALSE}, model_type : {"", "llama"},
          qc : {"key"}, qm : {<<>>, QF16, QGptq}]

\* Characters of the model names of SpecLayers, and the bound on their length
NameChars == {"1", "2", "3", "4", "7", "B"}
MaxNameLen == 6

\* the strings over NameChars of length at most n
NamesUpTo(n) == UNION {[1..k -> NameChars] : k \in 0..n}

\* ---------------------------------------------------------------------
\* State
\* ---------------------------------------------------------------------

VARIABLES
    args,          \* parsed command line of the current run
    SCRIPT_DIR,    \* directory of the script
    meta,          \* what fetch_model_metadata returned
    fs,            \* the paths that exist
    pc,            \* position of the current run
    exc,           \* the exception that ended the run, and where it was raised
    calls,         \* external tools invoked by the current run, in order
    rcs,           \* exit codes of the tools that have exited, in order
    printed,       \* messages printed by the current run
    n_gpu_layers,  \* layer count passed to the inference binary
    prev           \* record of one earlier run, kept for comparison

vars == <<args, SCRIPT_DIR, meta, fs, pc, exc, calls, rcs, printed,
          n_gpu_layers, prev>>

NoArgs == [model |-> <<>>, skip_download |-> FALSE,
           skip_conversion |-> FALSE, run_model |-> FALSE]
NoMeta == [none |-> TRUE, model_type |-> "", quantization |-> <<>>]
NoExc == [type |-> "none", at |-> "none"]
NoPrev == [none |-> TRUE]

\* Names of the external tools
HfCli == "huggingface-cli download"
GitClone == "git clone"
GitPull == "git pull"
GitCheckout == "git checkout master"
Converter == "python3 convert_hf_to_gguf.py"
LlamaCli == "llama-cli"

\* ---------------------------------------------------------------------
\* Module-level names of main.py
\* ---------------------------------------------------------------------

MODEL_NAME == AliasGet(args.model)

DOWNLOAD_DIR == Join(SCRIPT_DIR, <<"m", "o", "d", "e", "l", "s">>)

\* Variant of MODEL_SHORTNAME: taken from the unresolved --model value
MODEL_SHORTNAME_unresolved == SplitLast(args.model)

MODEL_SHORTNAME == SplitLast(MODEL_NAME)

SAVE_DIR == Join(DOWNLOAD_DIR, MODEL_SHORTNAME)

LLAMA_CPP_DIR == Join(SCRIPT_DIR, <<"l", "l", "a", "m", "a", ".", "c", "p", "p">>)

MODEL_TYPE == meta.model_type

QUANTIZATION_TYPE == meta.quantization

GGUF_PATH ==
    Join(SAVE_DIR, MODEL_SHORTNAME \o <<"-">> \o Upper(QUANTIZATION_TYPE)
                   \o <<".", "g", "g", "u", "f">>)

convert_script ==
    Join(LLAMA_CPP_DIR, <<"c", "o", "n", "v", "e", "r", "t", "_", "h", "f", "_",
                          "t", "o", "_", "g", "g", "u", "f", ".", "p", "y">>)

\* fetch_model_metadata: the pair it returns for what the hub answers
fetch_model_metadata(cfg) ==
    IF cfg.raises \/ cfg.qc = "none" THEN NoMeta
    ELSE [none |-> FALSE,
          model_type |-> cfg.model_type,
          quantization |-> IF cfg.qc = "key" THEN cfg.qm ELSE QF16]

\* Variant of MetadataMissing: only the model type is checked
MetadataMissing_type_only(m) == m.none \/ m.model_type = ""

\* not MODEL_TYPE or not QUANTIZATION_TYPE
MetadataMissing(m) == m.none \/ m.model_type = "" \/ m.quantization = <<>>

\* Variant of CheckRaises: check=False, the exit code is ignored
CheckRaises_unchecked(rc) == FALSE

\* subprocess.run(..., check=True) raises CalledProcessError
CheckRaises(rc) == rc # 0

\* Variant of ShouldDownload: the directory is not looked at
ShouldDownload_no_exists == ~args.skip_download

\* not args.skip_download and not os.path.exists(SAVE_DIR)
ShouldDownload == ~args.skip_download /\ SAVE_DIR \notin fs

\* Variant of ShouldConvert: the artifact is not looked at
ShouldConvert_no_exists == ~args.skip_conversion

\* not args.skip_conversion and not os.path.exists(GGUF_PATH)
ShouldConvert == ~args.skip_conversion /\ GGUF_PATH \notin fs

Raise(type, at) ==
    /\ pc' = "error"
    /\ exc' = [type |-> type, at |-> at]

\* ---------------------------------------------------------------------
\* Initial state: no run in progress, nothing on disk but the script
\* ---------------------------------------------------------------------

Init ==
    /\ args = NoArgs
    /\ SCRIPT_DIR \in ScriptDirs
    /\ meta = NoMeta
    /\ fs = {}
    /\ pc = "idle"
    /\ exc = NoExc
    /\ calls = <<>>
    /\ rcs = <<>>
    /\ printed = {}
    /\ n_gpu_layers = "unset"
    /\ prev = NoPrev

\* ---------------------------------------------------------------------
\* Steps of one run
\* ---------------------------------------------------------------------

\* lines 29-45: parse the command line, derive the paths, create models/
ParseArgs(m, sd, sc, rm) ==
    /\ pc = "idle"
    /\ args' = [model |-> m, skip_download |-> sd,
                skip_conversion |-> sc, run_model |-> rm]
    /\ fs' = fs \cup {DOWNLOAD_DIR}
    /\ pc' = "fetch"
    /\ UNCHANGED <<SCRIPT_DIR, meta, exc, calls, rcs, printed, n_gpu_layers, prev>>

\* lines 48-66: fetch the metadata, check it, name the artifact
FetchModelMetadata(cfg) ==
    /\ pc = "fetch"
    /\ UNCHANGED <<args, SCRIPT_DIR, fs, calls, rcs, n_gpu_layers, prev>>
    /\ meta' = fetch_model_metadata(cfg)
    /\ printed' = printed \cup {"fetching"}
                    \cup (IF meta'.none THEN {"fetch_error"} ELSE {"detected"})
    /\ IF MetadataMissing(meta')
       THEN Raise("ValueError", "metadata")
       ELSE pc' = "download" /\ UNCHANGED exc

\* Variant of DownloadModel: the directory is left for the download CLI to
\* create
DownloadModel_no_makedirs ==
    /\ pc = "download"
    /\ IF ShouldDownload
       THEN /\ printed' = printed \cup {"downloading"}
            /\ calls' = Append(calls, HfCli)
            /\ pc' = "download_wait"
            /\ UNCHANGED fs
       ELSE /\ printed' = printed \cup {"skip_download"}
            /\ pc' = "check"
            /\ UNCHANGED <<fs, calls>>
    /\ UNCHANGED <<args, SCRIPT_DIR, meta, exc, rcs, n_gpu_layers, prev>>

\* lines 68-80, up to the call of the download CLI
DownloadModel ==
    /\ pc = "download"
    /\ IF ShouldDownload
       THEN /\ printed' = printed \cup {"downloading"}
            /\ fs' = fs \cup {SAVE_DIR}
            /\ calls' = Append(calls, HfCli)
            /\ pc' = "download_wait"
       ELSE /\ printed' = printed \cup {"skip_download"}
            /\ pc' = "check"
            /\ UNCHANGED <<fs, calls>>
    /\ UNCHANGED <<args, SCRIPT_DIR, meta, exc, rcs, n_gpu_layers, prev>>

\* lines 74-78: the download CLI exits with rc
DownloadExit(rc) ==
    /\ pc = "download_wait"
    /\ rcs' = Append(rcs, rc)
    /\ IF CheckRaises(rc)
       THEN /\ Raise("CalledProcessError", "download")
            /\ UNCHANGED printed
       ELSE /\ printed' = printed \cup {"downloaded"}
            /\ pc' = "check"
            /\ UNCHANGED exc
    /\ UNCHANGED <<args, SCRIPT_DIR, meta, fs, calls, n_gpu_layers, prev>>

\* Variant of CheckModelFiles: a missing directory lists as empty
CheckModelFiles_tolerant(n) ==
    /\ pc = "check"
    /\ printed' = printed \cup (IF n > 1 /\ SAVE_DIR \in fs
                                THEN {"multiple_checkpoints"} ELSE {})
    /\ pc' = "update"
    /\ UNCHANGED <<args, SCRIPT_DIR, meta, fs, exc, calls, rcs, n_gpu_layers, prev>>

\* lines 82-85: list SAVE_DIR; n is the number of checkpoint files in it
CheckModelFiles(n) ==
    /\ pc = "check"
    /\ IF SAVE_DIR \notin fs
       THEN /\ Raise("FileNotFoundError", "check")
            /\ UNCHANGED printed
       ELSE /\ printed' = printed \cup (IF n > 1 THEN {"multiple_checkpoints"} ELSE {})
            /\ pc' = "update"
            /\ UNCHANGED exc
    /\ UNCHANGED <<args, SCRIPT_DIR, meta, fs, calls, rcs, n_gpu_layers, prev>>

\* lines 87-93, up to the call of git clone or git pull
UpdateLlamaCpp ==
    /\ pc = "update"
    /\ IF LLAMA_CPP_DIR \notin fs
       THEN /\ printed' = printed \cup {"cloning"}
            /\ calls' = Append(calls, GitClone)
       ELSE /\ printed' = printed \cup {"updating"}
            /\ calls' = Append(calls, GitPull)
    /\ pc' = "sync_wait"
    /\ UNCHANGED <<args, SCRIPT_DIR, meta, fs, exc, rcs, n_gpu_layers, prev>>

\* lines 90-95: git clone or pull exits with rc; when it succeeded the tree
\* is present and holds the converter script or not (hasScript), and git
\* checkout is called
SyncExit(rc, hasScript) ==
    /\ pc = "sync_wait"
    /\ rcs' = Append(rcs, rc)
    /\ IF CheckRaises(rc)
       THEN /\ Raise("CalledProcessError", "sync")
            /\ UNCHANGED <<fs, printed, calls>>
       ELSE /\ fs' = ((fs \cup {LLAMA_CPP_DIR}) \ {convert_script})
                        \cup (IF hasScript THEN {convert_script} ELSE {})
            /\ printed' = printed \cup {"checking_out"}
            /\ calls' = Append(calls, GitCheckout)
            /\ pc' = "checkout_wait"
            /\ UNCHANGED exc
    /\ UNCHANGED <<args, SCRIPT_DIR, meta, n_gpu_layers, prev>>

\* line 95: git checkout exits with rc
CheckoutExit(rc) ==
    /\ pc = "checkout_wait"
    /\ rcs' = Append(rcs, rc)
    /\ IF CheckRaises(rc)
       THEN Raise("CalledProcessError", "checkout")
       ELSE pc' = "convert" /\ UNCHANGED exc
    /\ UNCHANGED <<args, SCRIPT_DIR, meta, fs, calls, printed, n_gpu_layers, prev>>

\* Variant of ConvertModel: the script is looked for only when a conversion
\* is due
ConvertModel_late_check ==
    /\ pc = "convert"
    /\ IF ~ShouldConvert
       THEN /\ printed' = printed \cup {"skip_conversion"}
            /\ pc' = "run"
            /\ UNCHANGED <<exc, calls>>
       ELSE IF convert_script \notin fs
       THEN /\ Raise("FileNotFoundError", "convert")
            /\ UNCHANGED <<printed, calls>>
       ELSE /\ printed' = printed \cup {"converting"}
            /\ calls' = Append(calls, Converter)
            /\ pc' = "convert_wait"
            /\ UNCHANGED exc
    /\ UNCHANGED <<args, SCRIPT_DIR, meta, fs, rcs, n_gpu_layers, prev>>

\* lines 97-110, up to the call of the converter
ConvertModel ==
    /\ pc = "convert"
    /\ IF convert_script \notin fs
       THEN /\ Raise("FileNotFoundError", "convert")
            /\ UNCHANGED <<printed, calls>>
       ELSE IF ShouldConvert
       THEN /\ printed' = printed \cup {"converting"}
            /\ calls' = Append(calls, Converter)
            /\ pc' = "convert_wait"
            /\ UNCHANGED exc
       ELSE /\ printed' = printed \cup {"skip_conversion"}
            /\ pc' = "run"
            /\ UNCHANGED <<exc, calls>>
    /\ UNCHANGED <<args, SCRIPT_DIR, meta, fs, rcs, n_gpu_layers, prev>>

\* lines 106-108: the converter exits with rc; when it succeeded it has
\* written its output to GGUF_PATH or somewhere else (wrote)
ConvertExit(rc, wrote) ==
    /\ pc = "convert_wait"
    /\ rcs' = Append(rcs, rc)
    /\ IF CheckRaises(rc)
       THEN /\ Raise("CalledProcessError", "convert")
            /\ UNCHANGED <<fs, printed>>
       ELSE /\ fs' = fs \cup (IF wrote THEN {GGUF_PATH} ELSE {})
            /\ printed' = printed \cup {"converted"}
            /\ pc' = "run"
            /\ UNCHANGED exc
    /\ UNCHANGED <<args, SCRIPT_DIR, meta, calls, n_gpu_layers, prev>>

\* Variant of RunModel: the artifact is not looked for
RunModel_no_exists ==
    /\ pc = "run"
    /\ IF ~args.run_model
       THEN /\ printed' = printed \cup {"skip_run"}
            /\ pc' = "done"
            /\ UNCHANGED <<exc, calls, n_gpu_layers>>
       ELSE /\ printed' = printed \cup {"running", "using_layers"}
            /\ n_gpu_layers' = NGpuLayers(MODEL_NAME)
            /\ calls' = Append(calls, LlamaCli)
            /\ pc' = "run_wait"
            /\ UNCHANGED exc
    /\ UNCHANGED <<args, SCRIPT_DIR, meta, fs, rcs, prev>>

\* lines 113-149, up to the call of the inference binary
RunModel ==
    /\ pc = "run"
    /\ IF ~args.run_model
       THEN /\ printed' = printed \cup {"skip_run"}
            /\ pc' = "done"
            /\ UNCHANGED <<exc, calls, n_gpu_layers>>
       ELSE IF GGUF_PATH \in fs
       THEN /\ printed' = printed \cup {"running", "using_layers"}
            /\ n_gpu_layers' = NGpuLayers(MODEL_NAME)
            /\ calls' = Append(calls, LlamaCli)
            /\ pc' = "run_wait"
            /\ UNCHANGED exc
       ELSE /\ printed' = printed \cup {"running"}
            /\ Raise("FileNotFoundError", "run")
            /\ UNCHANGED <<calls, n_gpu_layers>>
    /\ UNCHANGED <<args, SCRIPT_DIR, meta, fs, rcs, prev>>

\* line 147: the inference binary exits with rc
RunExit(rc) ==
    /\ pc = "run_wait"
    /\ rcs' = Append(rcs, rc)
    /\ IF CheckRaises(rc)
       THEN Raise("CalledProcessError", "run")
       ELSE pc' = "done" /\ UNCHANGED exc
    /\ UNCHANGED <<args, SCRIPT_DIR, meta, fs, calls, printed, n_gpu_layers, prev>>

\* What is kept of a run for comparison with later runs: its command-line
\* model, the paths it used, whether its download CLI failed and whether it
\* got past its conversion stage
RunRecord ==
    [none |-> FALSE, model |-> args.model, name |-> MODEL_NAME,
     script |-> SCRIPT_DIR, quant |-> QUANTIZATION_TYPE,
     save |-> SAVE_DIR, llama |-> LLAMA_CPP_DIR,
     gguf |-> IF MetadataMissing(meta) THEN <<>> ELSE GGUF_PATH,
     dlFailed |-> exc = [type |-> "CalledProcessError", at |-> "download"],
     completed |-> printed \cap {"converted", "skip_conversion"} # {}]

\* The process ends; only the filesystem outlives it.  An observer may keep
\* the record of this run (remember), once per behaviour, so that any pair
\* of an earlier and a later run can be compared.
Exit(remember) ==
    /\ pc \in {"done", "error"}
    /\ IF remember
       THEN prev = NoPrev /\ prev' = RunRecord
       ELSE UNCHANGED prev
    /\ args' = NoArgs
    /\ meta' = NoMeta
    /\ pc' = "idle"
    /\ exc' = NoExc
    /\ calls' = <<>>
    /\ rcs' = <<>>
    /\ printed' = {}
    /\ n_gpu_layers' = "unset"
    /\ UNCHANGED <<SCRIPT_DIR, fs>>

Next ==
    \/ \E m \in ModelArgs, sd \in BOOLEAN, sc \in BOOLEAN, rm \in BOOLEAN :
            ParseArgs(m, sd, sc, rm)
    \/ \E cfg \in Configs : FetchModelMetadata(cfg)
    \/ DownloadModel
    \/ \E rc \in {0, 1} : DownloadExit(rc)
    \/ \E n \in 0..2 : CheckModelFiles(n)
    \/ UpdateLlamaCpp
    \/ \E rc \in {0, 1}, hasScript \in BOOLEAN : SyncExit(rc, hasScript)
    \/ \E rc \in {0, 1} : CheckoutExit(rc)
    \/ ConvertModel
    \/ \E rc \in {0, 1}, wrote \in BOOLEAN : ConvertExit(rc, wrote)
    \/ RunModel
    \/ \E rc \in {0, 1} : RunExit(rc)
    \/ \E remember \in BOOLEAN : Exit(remember)

Spec == Init /\ [][Next]_vars

\* ---------------------------------------------------------------------
\* The run stage over all model names up to MaxNameLen: a run of
\* --model <name> --run-model that has found its weights, the toolchain and
\* its artifact on disk stands before run_model()
\* ---------------------------------------------------------------------

InitLayers ==
    /\ args \in [model : NamesUpTo(MaxNameLen), skip_download : {FALSE},
                  skip_conversion : {FALSE}, run_model : {TRUE}]
    /\ SCRIPT_DIR = <<"/", "s">>
    /\ meta = [none |-> FALSE, model_type |-> "llama", quantization |-> QF16]
    /\ fs = {DOWNLOAD_DIR, SAVE_DIR, LLAMA_CPP_DIR, convert_script, GGUF_PATH}
    /\ pc = "run"
    /\ exc = NoExc
    /\ calls = <<GitPull, GitCheckout>>
    /\ rcs = <<0, 0>>
    /\ printed = {"fetching", "detected", "skip_download", "updating",
                  "checking_out", "skip_conversion"}
    /\ n_gpu_layers = "unset"
    /\ prev = NoPrev

NextLayers ==
    \/ RunModel
    \/ \E rc \in {0, 1} : RunExit(rc)

SpecLayers == InitLayers /\ [][NextLayers]_vars

\* ---------------------------------------------------------------------
\* Properties
\* ---------------------------------------------------------------------

\* the current run has invoked tool t
Invoked(t) == \E i \in 1..Len(calls) : calls[i] = t

\* place of a tool in the pipeline
Rank(t) ==
    CASE t = HfCli -> 1
      [] t \in {GitClone, GitPull} -> 2
      [] t = GitCheckout -> 3
      [] t = Converter -> 4
      [] t = LlamaCli -> 5

\* the current run has fetched its metadata and named its artifact
PastFetch == pc \notin {"idle", "fetch"} /\ exc.at # "metadata"

\* the remembered run had the same --model as the current run
SameModelAsPrev == ~prev.none /\ pc # "idle" /\ prev.model = args.model

K72B == <<"7", "2", "B">>
K32B == <<"3", "2", "B">>

\* C1: whenever the metadata fetch has failed in a run (the retrieval
\* raised, or the model type or the quantization value came back empty),
\* the run has ended with ValueError and has invoked no external tool.
C1_MetadataFailureAborts ==
    (pc \notin {"idle", "fetch"}
        /\ (meta.none \/ meta.model_type = "" \/ meta.quantization = <<>>))
    => /\ pc = "error"
       /\ exc = [type |-> "ValueError", at |-> "metadata"]
       /\ calls = <<>>

\* C1 witness: a run with both skip flags and --run-model set whose config
\* carried an empty quant_method has been aborted
C1_Witness ==
    /\ pc = "error"
    /\ ~meta.none /\ meta.model_type = "llama" /\ meta.quantization = <<>>
    /\ args.skip_download /\ args.skip_conversion /\ args.run_model

\* C2: a step of the download stage invokes the download CLI exactly when
\* --skip-download is not set and SAVE_DIR does not exist at that moment,
\* and no other step invokes it.
C2_DownloadExactlyWhen ==
    [][ /\ pc = "download" =>
            (Invoked(HfCli)' <=> (~args.skip_download /\ SAVE_DIR \notin fs))
        /\ (Invoked(HfCli)' /\ ~Invoked(HfCli)) => pc = "download" ]_vars

\* C2 witness: a run without --skip-download has passed its download stage
\* without invoking the download CLI, the directory being there
C2_Witness ==
    /\ pc = "check"
    /\ ~args.skip_download
    /\ SAVE_DIR \in fs
    /\ ~Invoked(HfCli)

\* C3 as stated: once a run has completed its download and conversion
\* stages, a later run with the same --model invokes neither the download
\* CLI nor the converter.
C3_Original ==
    (SameModelAsPrev /\ prev.completed)
    => (~Invoked(HfCli) /\ ~Invoked(Converter))

\* C3 amended: once a run has completed its download and conversion stages,
\* a later run with the same --model never invokes the download CLI, and it
\* invokes the converter only if --skip-conversion is not set and the
\* artifact named by its own quantization value does not exist when its
\* conversion stage is reached.
C3_IdempotentGivenArtifact ==
    (SameModelAsPrev /\ prev.completed)
    => /\ ~Invoked(HfCli)
       /\ pc = "convert_wait" => (~args.skip_conversion /\ GGUF_PATH \notin fs)
       /\ Invoked(Converter) => ~args.skip_conversion

\* C3 witness: a later run with no skip flag has passed both stages without
\* invoking either tool
C3_Witness ==
    /\ SameModelAsPrev /\ prev.completed
    /\ pc = "run"
    /\ ~args.skip_download /\ ~args.skip_conversion
    /\ ~Invoked(HfCli) /\ ~Invoked(Converter)
    /\ GGUF_PATH \in fs

\* C4: a step of the conversion stage taken while the converter script is
\* absent ends the run with FileNotFoundError and invokes nothing, whatever
\* the flags and the filesystem; and a run that ended so has invoked neither
\* the converter nor the inference binary.
C4_MissingScriptFatal ==
    /\ [][ (pc = "convert" /\ convert_script \notin fs) =>
            /\ pc' = "error"
            /\ exc' = [type |-> "FileNotFoundError", at |-> "convert"]
            /\ calls' = calls ]_vars
    /\ [](exc = [type |-> "FileNotFoundError", at |-> "convert"] =>
            (pc = "error" /\ ~Invoked(Converter) /\ ~Invoked(LlamaCli)))

\* C4 witness: the run was aborted for the missing script although
\* --skip-conversion was set and the artifact existed
C4_Witness ==
    /\ pc = "error"
    /\ exc = [type |-> "FileNotFoundError", at |-> "convert"]
    /\ args.skip_conversion
    /\ GGUF_PATH \in fs
    /\ convert_script \notin fs

\* C5 as stated: every model name containing "32B" gets "60", every name
\* containing none of the table's substrings gets "30".
C5_Original ==
    n_gpu_layers # "unset" =>
        /\ Contains(K32B, MODEL_NAME) => n_gpu_layers = "60"
        /\ (\A i \in 1..Len(n_gpu_layers_mapping) :
                ~Contains(n_gpu_layers_mapping[i][1], MODEL_NAME))
            => n_gpu_layers = "30"

\* C5 amended: every model name containing "32B" and not "72B" gets "60"
\* (one containing both gets "40", the value of the earlier entry), every
\* name containing none of the table's substrings gets "30", and in general
\* the count is that of the first entry of the table, in its order, whose
\* substring the name contains.
C5_FirstMatch ==
    n_gpu_layers # "unset" =>
        /\ (Contains(K32B, MODEL_NAME) /\ ~Contains(K72B, MODEL_NAME))
            => n_gpu_layers = "60"
        /\ (Contains(K32B, MODEL_NAME) /\ Contains(K72B, MODEL_NAME))
            => n_gpu_layers = "40"
        /\ (\A i \in 1..Len(n_gpu_layers_mapping) :
                ~Contains(n_gpu_layers_mapping[i][1], MODEL_NAME))
            => n_gpu_layers = "30"
        /\ \A i \in 1..Len(n_gpu_layers_mapping) :
                (/\ Contains(n_gpu_layers_mapping[i][1], MODEL_NAME)
                 /\ \A j \in 1..(i - 1) :
                        ~Contains(n_gpu_layers_mapping[j][1], MODEL_NAME))
                => n_gpu_layers = n_gpu_layers_mapping[i][2]

\* C5 witness: the inference binary was invoked for a name that contains
\* "32B" after a later entry's substring ("3B")
C5_Witness ==
    /\ pc = "run_wait"
    /\ Contains(K32B, MODEL_NAME)
    /\ Contains(<<"B", "3", "B">>, MODEL_NAME)
    /\ n_gpu_layers = "60"

\* C6: in every run the tools are invoked in pipeline order, each at most
\* once; git checkout directly follows git clone or pull; every tool but the
\* last invoked has exited with success before the next was invoked; and
\* once a tool has exited with failure the run is in its error state with
\* that tool the last one invoked.
C6_SequentialAbortOnFailure ==
    /\ \A i, j \in 1..Len(calls) : i < j => Rank(calls[i]) < Rank(calls[j])
    /\ \A i \in 1..Len(calls) :
            calls[i] = GitCheckout => (i > 1 /\ calls[i - 1] \in {GitClone, GitPull})
    /\ Len(rcs) \in {Len(calls) - 1, Len(calls)}
    /\ Len(rcs) = Len(calls) - 1 =>
            pc \in {"download_wait", "sync_wait", "checkout_wait",
                    "convert_wait", "run_wait"}
    /\ \A i \in 1..Len(rcs) : i < Len(calls) => rcs[i] = 0
    /\ (\E i \in 1..Len(rcs) : rcs[i] # 0) =>
            /\ pc = "error"
            /\ exc.type = "CalledProcessError"
            /\ Len(rcs) = Len(calls)

\* C6 witness: the converter, fourth tool of the run, has failed
C6_Witness ==
    /\ pc = "error"
    /\ calls = <<HfCli, GitClone, GitCheckout, Converter>>
    /\ rcs = <<0, 0, 0, 1>>

\* C7: a step of the run stage with --run-model set and the artifact
\* missing ends the run with FileNotFoundError without invoking the
\* inference binary; a step of the run stage without --run-model ends the
\* run without error and without invoking it; and the inference binary is
\* only ever invoked in a run with --run-model.
C7_MissingArtifactFatal ==
    /\ [][ /\ (pc = "run" /\ args.run_model /\ GGUF_PATH \notin fs) =>
                /\ pc' = "error"
                /\ exc' = [type |-> "FileNotFoundError", at |-> "run"]
                /\ ~Invoked(LlamaCli)'
           /\ (pc = "run" /\ ~args.run_model) =>
                /\ pc' = "done"
                /\ exc' = NoExc
                /\ ~Invoked(LlamaCli)' ]_vars
    /\ [](Invoked(LlamaCli) => args.run_model)
    /\ [](exc = [type |-> "FileNotFoundError", at |-> "run"] =>
            (pc = "error" /\ ~Invoked(LlamaCli)))

\* C7 witness: a run with --run-model was aborted at the run stage, its
\* converter having exited with success
C7_Witness ==
    /\ pc = "error"
    /\ exc = [type |-> "FileNotFoundError", at |-> "run"]
    /\ args.run_model
    /\ Invoked(Converter)
    /\ GGUF_PATH \notin fs

\* C8 as stated: two runs with the same resolved model name and the same
\* script directory use the same weights directory, toolchain directory and
\* artifact path.
C8_Original ==
    (~prev.none /\ PastFetch /\ prev.gguf # <<>>
        /\ prev.name = MODEL_NAME /\ prev.script = SCRIPT_DIR)
    => /\ prev.save = SAVE_DIR
       /\ prev.llama = LLAMA_CPP_DIR
       /\ prev.gguf = GGUF_PATH

\* C8 amended: two runs with the same resolved model name and the same
\* script directory use the same weights directory and the same toolchain
\* directory, and they use the same artifact path if the hub returned the
\* same quantization value to both.
C8_PathsDeterministic ==
    (~prev.none /\ pc # "idle"
        /\ prev.name = MODEL_NAME /\ prev.script = SCRIPT_DIR)
    => /\ prev.save = SAVE_DIR
       /\ prev.llama = LLAMA_CPP_DIR
       /\ (PastFetch /\ prev.gguf # <<>> /\ prev.quant = QUANTIZATION_TYPE)
            => prev.gguf = GGUF_PATH

\* C8 witness: a run given the alias after a run given the full name, with
\* the same quantization value
C8_Witness ==
    /\ ~prev.none /\ PastFetch
    /\ prev.model # args.model
    /\ prev.name = MODEL_NAME
    /\ prev.gguf # <<>>
    /\ prev.quant = QUANTIZATION_TYPE
    /\ prev.gguf = GGUF_PATH

\* C9: after a run whose download CLI exited with failure, a later run with
\* the same --model finds SAVE_DIR present, never invokes the download CLI,
\* reports the skip, and does not fail in its download stage or in the
\* checkpoint-file check.
C9_FailedDownloadNotRetried ==
    (SameModelAsPrev /\ prev.dlFailed)
    => /\ SAVE_DIR \in fs
       /\ ~Invoked(HfCli)
       /\ exc.at \notin {"download", "check"}
       /\ (PastFetch /\ pc # "download") => "skip_download" \in printed

\* C9 witness: such a later run, without --skip-download, has got past the
\* checkpoint-file check
C9_Witness ==
    /\ SameModelAsPrev /\ prev.dlFailed
    /\ ~args.skip_download
    /\ pc = "update"

\* C10: a run with --skip-download that is past its download stage while
\* SAVE_DIR does not exist has reported the skip, has invoked no tool, and
\* is either about to list the directory or has ended with the
\* FileNotFoundError of that listing.
C10_SkipDownloadOfMissingModelAborts ==
    (PastFetch /\ pc # "download" /\ args.skip_download /\ SAVE_DIR \notin fs)
    => /\ "skip_download" \in printed
       /\ calls = <<>>
       /\ \/ pc = "check"
          \/ pc = "error" /\ exc = [type |-> "FileNotFoundError", at |-> "check"]

\* C10 witness: such a run has ended at the checkpoint-file check
C10_Witness ==
    /\ pc = "error"
    /\ exc = [type |-> "FileNotFoundError", at |-> "check"]
    /\ args.skip_download
    /\ SAVE_DIR \notin fs
    /\ calls = <<>>

====
